---- MODULE Spec2Model ----
(***************************************************************************)
(* Model of IGFormatResizer.py: the fit-and-pad transform                  *)
(* resize_with_transparent_bg and the Tkinter form that drives it.         *)
(*                                                                         *)
(* Paths are sequences of one-character strings so that rsplit, strip,     *)
(* lower and endswith act on characters.  Numeric form fields hold decimal *)
(* digit sequences, written by str() and parsed by int().                  *)
(*                                                                         *)
(* Pillow is modelled by what its calls do (Pillow >= 7.0):                *)
(*   Image.thumbnail -> preserve_aspect_ratio / round_aspect, in exact     *)
(*                      rational arithmetic;                               *)
(*   Image.paste     -> per-pixel BLEND8 with the mask's alpha;            *)
(*   Image.save      -> open(filename, "w+b"), write, and removal of the   *)
(*                      file on a failed write when save created it.       *)
(* Only the alpha channel of a pixel is carried; the LANCZOS resampler's   *)
(* output is an arbitrary alpha pattern of the computed size.              *)
(***************************************************************************)
EXTENDS Integers, Sequences, FiniteSets, TLC

VARIABLES fs, input_var, output_var, preset_var, width_var, height_var,
          status_label, messagebox, call, runs

vars == <<fs, input_var, output_var, preset_var, width_var, height_var,
          status_label, messagebox, call, runs>>

form_vars == <<input_var, output_var, preset_var, width_var, height_var,
               status_label, messagebox>>

(* ------------------------------ bounds --------------------------------- *)

\* largest target width/height drawn for the transform
MaxDim == 3

\* largest source width/height drawn for the transform
MaxSrc == 4

\* number of conversions the form runs in one behaviour
MaxRuns == 2

(* --------------------------- small helpers ----------------------------- *)

Max(a, b) == IF a >= b THEN a ELSE b

Abs(a) == IF a >= 0 THEN a ELSE 0 - a

\* math.floor of the non-negative rational num/den
Floor(num, den) == num \div den

\* math.ceil of the non-negative rational num/den
Ceil(num, den) == (num + den - 1) \div den

(* ------------------------- strings and paths --------------------------- *)

EmptyStr == << >>

PNG_EXT == <<".", "p", "n", "g">>

\* str.lower on one character
LowerChar(c) ==
  CASE c = "P" -> "p"
    [] c = "N" -> "n"
    [] c = "G" -> "g"
    [] c = "O" -> "o"
    [] OTHER -> c

\* str.lower
Lower(s) == [i \in 1..Len(s) |-> LowerChar(s[i])]

\* str.endswith
EndsWith(s, suffix) ==
  /\ Len(s) >= Len(suffix)
  /\ SubSeq(s, Len(s) - Len(suffix) + 1, Len(s)) = suffix

\* position of the last occurrence of c in s, 0 when there is none
LastIndexOf(s, c) ==
  LET hits == {i \in 1..Len(s) : s[i] = c}
  IN IF hits = {} THEN 0 ELSE CHOOSE i \in hits : \A j \in hits : j <= i

\* path.rsplit(".", 1)[0]
RSplitDot0(s) ==
  LET k == LastIndexOf(s, ".")
  IN IF k = 0 THEN s ELSE SubSeq(s, 1, k - 1)

\* str.strip (whitespace is the blank)
Strip(s) ==
  LET keep == {i \in 1..Len(s) : s[i] # " "}
  IN IF keep = {} THEN EmptyStr
     ELSE LET lo == CHOOSE i \in keep : \A j \in keep : i <= j
              hi == CHOOSE i \in keep : \A j \in keep : j <= i
          IN SubSeq(s, lo, hi)

Digits == <<"0", "1", "2", "3", "4", "5", "6", "7", "8", "9">>

RECURSIVE Str(_)
\* str(n) for a non-negative integer
Str(n) == IF n < 10 THEN <<Digits[n + 1]>>
          ELSE Append(Str(n \div 10), Digits[(n % 10) + 1])

DigitVal(c) == CHOOSE d \in 0..9 : Digits[d + 1] = c

IsDigit(c) == \E d \in 0..9 : Digits[d + 1] = c

\* int(s) succeeds (no ValueError)
IsInt(s) == Len(s) > 0 /\ \A i \in 1..Len(s) : IsDigit(s[i])

RECURSIVE ParseInt(_)
\* int(s) for a digit sequence
ParseInt(s) == IF Len(s) = 0 THEN 0
               ELSE 10 * ParseInt(SubSeq(s, 1, Len(s) - 1)) + DigitVal(s[Len(s)])

\* directory part of a path (empty for a bare file name)
DirOf(p) ==
  LET k == LastIndexOf(p, "/")
  IN IF k = 0 THEN EmptyStr ELSE SubSeq(p, 1, k - 1)

(* ------------------------------ presets -------------------------------- *)

SQUARE == "Square (1:1) 1080x1080"

PORTRAIT == "Portrait (4:5) 1080x1350"

LANDSCAPE == "Landscape (16:9) 1080x606"

PRESETS == (SQUARE :> <<1080, 1080>>) @@ (PORTRAIT :> <<1080, 1350>>)
           @@ (LANDSCAPE :> <<1080, 606>>)

\* dict.get(key, default)
PresetsGet(label, default) ==
  IF label \in DOMAIN PRESETS THEN PRESETS[label] ELSE default

(* ---------------------- files and the environment ---------------------- *)

A_PNG == <<"a", ".", "p", "n", "g">>

B_JPG == <<"b", ".", "j", "p", "g">>

C_GIF == <<"c", ".", "g", "i", "f">>

S_BMP == <<"s", ".", "b", "m", "p">>

M_PNG == <<"m", ".", "p", "n", "g">>

B_JPG_BLANK == <<" ", "b", ".", "j", "p", "g">>

O_BARE == <<"o">>

O_UPPER == <<"O", ".", "P", "N", "G">>

N_O_PNG == <<"n", "/", "o", ".", "p", "n", "g">>

R_O_PNG == <<"r", "/", "o", ".", "p", "n", "g">>

\* directories that exist: the working directory and r
ExistingDirs == {EmptyStr, <<"r">>}

\* directories in which no file can be created
ReadOnlyDirs == {<<"r">>}

\* files the process can neither read nor write
NoAccessFiles == {S_BMP}

\* content of a decodable image file
ImageFile(mode, w, h, pat) ==
  [kind |-> "image", mode |-> mode, w |-> w, h |-> h, pat |-> pat]

\* content of a file that is not an image
CorruptFile == [kind |-> "corrupt", mode |-> "", w |-> 0, h |-> 0, pat |-> ""]

\* content of a PNG whose write stopped half way
PartialFile == [kind |-> "partial", mode |-> "", w |-> 0, h |-> 0, pat |-> ""]

\* the files on disk at startup, the two images having size sw x sh
InitialFiles(sw, sh, pat) ==
  (A_PNG :> ImageFile("RGBA", sw, sh, pat))
  @@ (B_JPG :> ImageFile("RGB", sw, sh, "opaque"))
  @@ (C_GIF :> CorruptFile)
  @@ (S_BMP :> ImageFile("RGB", sw, sh, "opaque"))

\* the exception Image.open(path).convert("RGBA") raises, "none" if it loads
OpenError(fsys, path) ==
  CASE path \notin DOMAIN fsys -> "FileNotFoundError"
    [] path \in DOMAIN fsys /\ path \in NoAccessFiles -> "PermissionError"
    [] path \in DOMAIN fsys /\ path \notin NoAccessFiles
       /\ fsys[path].kind = "corrupt" -> "UnidentifiedImageError"
    [] path \in DOMAIN fsys /\ path \notin NoAccessFiles
       /\ fsys[path].kind = "partial" -> "OSError"
    [] OTHER -> "none"

\* the exception open(path, "w+b") raises inside Image.save, "none" if it opens
SaveOpenError(fsys, path) ==
  CASE DirOf(path) \notin ExistingDirs -> "FileNotFoundError"
    [] DirOf(path) \in ExistingDirs /\ path \in DOMAIN fsys
       /\ path \in NoAccessFiles -> "PermissionError"
    [] DirOf(path) \in ExistingDirs /\ path \notin DOMAIN fsys
       /\ DirOf(path) \in ReadOnlyDirs -> "PermissionError"
    [] OTHER -> "none"

\* fsys with content stored at path
WriteFile(fsys, path, content) ==
  [p \in (DOMAIN fsys) \cup {path} |-> IF p = path THEN content ELSE fsys[p]]

(* ------------------------- Image.thumbnail size ------------------------ *)

\* round_aspect(number, key) for number = y * aspect, aspect = w / h:
\* the key |aspect - n / y| orders like |w * y - n * h|
RoundAspectWidth(w, h, y) ==
  LET lo == Floor(y * w, h)
      hi == Ceil(y * w, h)
      key(n) == Abs(w * y - n * h)
  IN Max(IF key(lo) <= key(hi) THEN lo ELSE hi, 1)

\* RoundAspectHeight without the lower limit of one pixel
RoundAspectHeight_unclamped(w, h, x) ==
  LET lo == Floor(x * h, w)
      hi == Ceil(x * h, w)
  IN IF lo = 0 THEN lo
     ELSE IF Abs(w * lo - x * h) * hi <= Abs(w * hi - x * h) * lo
          THEN lo ELSE hi

\* round_aspect(number, key) for number = x / aspect:
\* the key is 0 for n = 0 and |aspect - x / n| otherwise
RoundAspectHeight(w, h, x) ==
  LET lo == Floor(x * h, w)
      hi == Ceil(x * h, w)
      pick == IF lo = 0 THEN lo
              ELSE IF Abs(w * lo - x * h) * hi <= Abs(w * hi - x * h) * lo
                   THEN lo ELSE hi
  IN Max(pick, 1)

\* ThumbnailSize that also enlarges an image smaller than the box
ThumbnailSize_fill(w, h, x, y) ==
  IF x * h >= w * y THEN <<RoundAspectWidth(w, h, y), y>>
  ELSE <<x, RoundAspectHeight(w, h, x)>>

\* preserve_aspect_ratio(): the size img.thumbnail((x, y)) leaves a w x h image
ThumbnailSize(w, h, x, y) ==
  IF x >= w /\ y >= h THEN <<w, h>>
  ELSE IF x * h >= w * y THEN <<RoundAspectWidth(w, h, y), y>>
       ELSE <<x, RoundAspectHeight(w, h, x)>>

(* ------------------------------- images -------------------------------- *)

\* pixel coordinates of a w x h image
Pixels(w, h) == (0..(w - 1)) \X (0..(h - 1))

\* alpha patterns an image's pixels can follow
Patterns == {"opaque", "clear", "checker", "soft"}

\* alpha of pixel (px, py) under a pattern
PatternAlpha(pat, px, py) ==
  CASE pat = "opaque" -> 255
    [] pat = "clear" -> 0
    [] pat = "checker" -> IF (px + py) % 2 = 0 THEN 255 ELSE 0
    [] OTHER -> IF (px + py) % 2 = 0 THEN 128 ELSE 0

\* an in-memory RGBA image; a maps each pixel to its alpha when detail holds,
\* and is empty when pixel data is not carried
Bitmap(w, h, pat, detail) ==
  [w |-> w, h |-> h,
   a |-> IF detail
         THEN [p \in Pixels(w, h) |-> PatternAlpha(pat, p[1], p[2])]
         ELSE << >>]

NoImage == [w |-> 0, h |-> 0, a |-> << >>]

\* Image.open(path).convert("RGBA"): a source without alpha becomes opaque
ConvertRGBA(file, detail) ==
  Bitmap(file.w, file.h, IF file.mode = "RGB" THEN "opaque" ELSE file.pat,
         detail)

\* img.thumbnail((width, height), LANCZOS): unchanged when it already fits,
\* otherwise resampled (alpha pattern q) to ThumbnailSize
Thumbnail(img, width, height, q, detail) ==
  LET size == ThumbnailSize(img.w, img.h, width, height)
  IN IF size = <<img.w, img.h>> THEN img
     ELSE Bitmap(size[1], size[2], q, detail)

\* ImageNew with width and height exchanged
ImageNew_swapped(width, height, detail) == Bitmap(height, width, "clear", detail)

\* Image.new("RGBA", (width, height), (0, 0, 0, 0))
ImageNew(width, height, detail) == Bitmap(width, height, "clear", detail)

\* DIV255 of Pillow's paste: rounding division by 255
Div255(v) == LET tmp == v + 128 IN ((tmp \div 256) + tmp) \div 256

\* BLEND8(mask, in1, in2)
Blend8(mask, in1, in2) == Div255(in1 * (255 - mask) + in2 * mask)

\* Paste that ignores the offset and blends at the canvas origin
Paste_origin(canvas, img, x, y, mask) ==
  [canvas EXCEPT !.a =
     [p \in DOMAIN canvas.a |->
        IF p[1] < img.w /\ p[2] < img.h
        THEN Blend8(mask.a[p], canvas.a[p], img.a[p])
        ELSE canvas.a[p]]]

\* canvas.paste(img, (x, y), mask): blend img over the box at (x, y)
Paste(canvas, img, x, y, mask) ==
  [canvas EXCEPT !.a =
     [p \in DOMAIN canvas.a |->
        IF /\ x <= p[1] /\ p[1] < x + img.w
           /\ y <= p[2] /\ p[2] < y + img.h
        THEN Blend8(mask.a[<<p[1] - x, p[2] - y>>], canvas.a[p],
                    img.a[<<p[1] - x, p[2] - y>>])
        ELSE canvas.a[p]]]

(* --------------------- resize_with_transparent_bg ---------------------- *)

\* CenterOffset rounding the half upwards
CenterOffset_ceil(total, part) == (total - part + 1) \div 2

\* (total - part) // 2: the centred paste coordinate
CenterOffset(total, part) == (total - part) \div 2

NoReturn == [kind |-> "none", text |-> "", path |-> EmptyStr, cause |-> ""]

ReturnTrue == [kind |-> "ok", text |-> "", path |-> EmptyStr, cause |-> ""]

\* the except clauses: the exception raised for an exception e caught in the
\* try block; e_path is the path str(e) carries
Reraise(e, e_path, input_path, output_path) ==
  CASE e = "FileNotFoundError" ->
         [kind |-> "FileNotFoundError", text |-> "Could not find input file: ",
          path |-> input_path, cause |-> e]
    [] e = "PermissionError" ->
         [kind |-> "PermissionError",
          text |-> "Permission denied when saving to: ",
          path |-> output_path, cause |-> e]
    [] OTHER ->
         [kind |-> "Exception", text |-> "Error processing image: ",
          path |-> e_path, cause |-> e]

\* canvas.save(output_path, format="PNG"): the exception raised ("none" on
\* success) and the files afterwards; disk = "full" makes the write fail
Save(fsys, canvas, output_path, disk) ==
  LET oe == SaveOpenError(fsys, output_path)
      created == output_path \notin DOMAIN fsys
  IN IF oe # "none" THEN [e |-> oe, fs |-> fsys]
     ELSE IF disk = "full"
          THEN [e |-> "OSError",
                fs |-> IF created THEN fsys
                       ELSE WriteFile(fsys, output_path, PartialFile)]
          ELSE [e |-> "none",
                fs |-> WriteFile(fsys, output_path,
                                 ImageFile("RGBA", canvas.w, canvas.h,
                                           "canvas"))]

\* the whole function: what it returns or raises, the files afterwards, and
\* its locals img, x, y, canvas
resize_with_transparent_bg(fsys, input_path, output_path, width, height, q, disk, detail) ==
  LET oe == OpenError(fsys, input_path)
  IN IF oe # "none"
     THEN [ret |-> Reraise(oe, IF oe = "UnidentifiedImageError"
                               THEN input_path ELSE EmptyStr,
                           input_path, output_path),
           fs |-> fsys, img |-> NoImage, x |-> 0, y |-> 0, canvas |-> NoImage]
     ELSE LET img == Thumbnail(ConvertRGBA(fsys[input_path], detail),
                               width, height, q, detail)
              blank == ImageNew(width, height, detail)
              x == CenterOffset(width, img.w)
              y == CenterOffset(height, img.h)
              canvas == Paste(blank, img, x, y, img)
              saved == Save(fsys, canvas, output_path, disk)
          IN [ret |-> IF saved.e = "none" THEN ReturnTrue
                      ELSE Reraise(saved.e, EmptyStr, input_path, output_path),
              fs |-> saved.fs, img |-> img, x |-> x, y |-> y,
              canvas |-> canvas]

\* the record of a call of resize_with_transparent_bg
CallRecord(state, input_path, output_path, width, height, r) ==
  [state |-> state, input_path |-> input_path, output_path |-> output_path,
   width |-> width, height |-> height, ret |-> r.ret, img |-> r.img,
   x |-> r.x, y |-> r.y, canvas |-> r.canvas]

NoResult == [ret |-> NoReturn, img |-> NoImage, x |-> 0, y |-> 0,
             canvas |-> NoImage]

\* outcomes of the write that the environment decides
DiskStates == {"ok", "full"}

(* ------------------------------ the form ------------------------------- *)

\* files the open dialog offers
InputDialog == {A_PNG, B_JPG, C_GIF}

\* texts typed into the input entry
InputTyped == {B_JPG_BLANK}

\* names the save dialog returns
OutputDialog == {O_BARE, O_UPPER}

\* texts typed into the output entry
OutputTyped == {N_O_PNG}

\* size of the two images on disk when the form starts
FormSrcSize == <<2000, 1000>>

NoBox == [title |-> "", text |-> "", path |-> EmptyStr]

\* OnPresetChange writing the width into both fields
OnPresetChange_width_only(label) ==
  LET wh == PresetsGet(label, PRESETS[PORTRAIT])
  IN <<Str(wh[1]), Str(wh[1])>>

\* on_preset_change: the texts written to width_var and height_var
OnPresetChange(label) ==
  LET wh == PresetsGet(label, PRESETS[PORTRAIT])
  IN <<Str(wh[1]), Str(wh[2])>>

\* select_input's suggestion for the output path
SuggestOutput(path) == RSplitDot0(path) \o PNG_EXT

\* select_output's path with the .png extension ensured
EnsurePng(path) ==
  IF EndsWith(Lower(path), PNG_EXT) THEN path ELSE path \o PNG_EXT

Init ==
  /\ fs = InitialFiles(FormSrcSize[1], FormSrcSize[2], "checker")
  /\ input_var = EmptyStr
  /\ output_var = EmptyStr
  /\ preset_var = PORTRAIT
  /\ width_var = OnPresetChange(PORTRAIT)[1]
  /\ height_var = OnPresetChange(PORTRAIT)[2]
  /\ status_label = "Ready"
  /\ messagebox = NoBox
  /\ call = CallRecord("idle", EmptyStr, EmptyStr, 0, 0, NoResult)
  /\ runs = 0

\* the preset menu writes preset_var, whose trace runs on_preset_change
on_preset_change ==
  \E label \in DOMAIN PRESETS :
    /\ preset_var' = label
    /\ width_var' = OnPresetChange(label)[1]
    /\ height_var' = OnPresetChange(label)[2]
    /\ UNCHANGED <<fs, input_var, output_var, status_label, messagebox,
                   call, runs>>

select_input ==
  \E path \in InputDialog \cup {EmptyStr} :
    /\ IF path # EmptyStr
       THEN /\ input_var' = path
            /\ output_var' = IF output_var = EmptyStr
                             THEN SuggestOutput(path) ELSE output_var
       ELSE UNCHANGED <<input_var, output_var>>
    /\ UNCHANGED <<fs, preset_var, width_var, height_var, status_label,
                   messagebox, call, runs>>

select_output ==
  \E path \in OutputDialog \cup {EmptyStr} :
    /\ IF path # EmptyStr
       THEN output_var' = EnsurePng(path)
       ELSE UNCHANGED output_var
    /\ UNCHANGED <<fs, input_var, preset_var, width_var, height_var,
                   status_label, messagebox, call, runs>>

\* the user types into the input entry, which is bound to input_var
edit_input ==
  \E text \in InputTyped :
    /\ input_var' = text
    /\ UNCHANGED <<fs, output_var, preset_var, width_var, height_var,
                   status_label, messagebox, call, runs>>

\* the user types into the output entry, which is bound to output_var
edit_output ==
  \E text \in OutputTyped :
    /\ output_var' = text
    /\ UNCHANGED <<fs, input_var, preset_var, width_var, height_var,
                   status_label, messagebox, call, runs>>

run_conversion ==
  LET inp == Strip(input_var)
      out == Strip(output_var)
  IN IF inp = EmptyStr \/ out = EmptyStr
     THEN /\ messagebox' = [title |-> "Missing Paths",
                            text |-> "Please select both input and output files.",
                            path |-> EmptyStr]
          /\ UNCHANGED <<fs, input_var, output_var, preset_var, width_var,
                         height_var, status_label, call, runs>>
     ELSE IF \/ ~IsInt(width_var) \/ ~IsInt(height_var)
             \/ ParseInt(width_var) <= 0 \/ ParseInt(height_var) <= 0
          THEN /\ messagebox' =
                    [title |-> "Invalid Dimensions",
                     text |-> "Width and height must be positive integers.",
                     path |-> EmptyStr]
               /\ UNCHANGED <<fs, input_var, output_var, preset_var,
                              width_var, height_var, status_label, call, runs>>
          ELSE /\ runs < MaxRuns
               /\ \E q \in Patterns, disk \in DiskStates :
                    LET w == ParseInt(width_var)
                        h == ParseInt(height_var)
                        r == resize_with_transparent_bg(fs, inp, out, w, h,
                                                        q, disk, FALSE)
                    IN /\ call' = CallRecord("returned", inp, out, w, h, r)
                       /\ fs' = r.fs
                       /\ status_label' = IF r.ret.kind = "ok" THEN "Ready"
                                          ELSE "Error"
                       /\ messagebox' =
                            IF r.ret.kind = "ok"
                            THEN [title |-> "Success",
                                  text |-> "Image successfully resized!",
                                  path |-> out]
                            ELSE [title |-> "Error", text |-> r.ret.text,
                                  path |-> r.ret.path]
               /\ runs' = runs + 1
               /\ UNCHANGED <<input_var, output_var, preset_var, width_var,
                              height_var>>

Next ==
  \/ on_preset_change
  \/ select_input
  \/ select_output
  \/ edit_input
  \/ edit_output
  \/ run_conversion

Spec == Init /\ [][Next]_vars

(* ----------------- the transform on drawn arguments -------------------- *)

\* input paths drawn for the transform
FitInputs == {A_PNG, B_JPG, C_GIF, S_BMP, M_PNG}

\* output paths drawn for the transform
FitOutputs == {O_UPPER, A_PNG, B_JPG, S_BMP, N_O_PNG, R_O_PNG}

InitFit ==
  \E sw \in 1..MaxSrc, sh \in 1..MaxSrc, pat \in Patterns,
     inp \in FitInputs, out \in FitOutputs,
     width \in 1..MaxDim, height \in 1..MaxDim :
    /\ fs = InitialFiles(sw, sh, pat)
    /\ call = CallRecord("ready", inp, out, width, height, NoResult)
    /\ input_var = EmptyStr
    /\ output_var = EmptyStr
    /\ preset_var = PORTRAIT
    /\ width_var = OnPresetChange(PORTRAIT)[1]
    /\ height_var = OnPresetChange(PORTRAIT)[2]
    /\ status_label = "Ready"
    /\ messagebox = NoBox
    /\ runs = 0

\* one call of resize_with_transparent_bg on the drawn arguments
Fit ==
  /\ call.state = "ready"
  /\ \E q \in Patterns, disk \in DiskStates :
       LET r == resize_with_transparent_bg(fs, call.input_path,
                                           call.output_path, call.width,
                                           call.height, q, disk, TRUE)
       IN /\ call' = CallRecord("returned", call.input_path,
                                call.output_path, call.width, call.height, r)
          /\ fs' = r.fs
  /\ runs' = runs + 1
  /\ UNCHANGED form_vars

SpecFit == InitFit /\ [][Fit]_vars

(* ------------------------------ properties ----------------------------- *)

\* a step in which resize_with_transparent_bg runs to its return or raise
TransformStep == runs' = runs + 1

\* the source of the call about to run can be decoded
SourceReadable == OpenError(fs, call.input_path) = "none"

\* the scale factor min(width / src_w, height / src_h, 1) as <<num, den>>
ScaleFactor(src_w, src_h, width, height) ==
  IF src_w <= width /\ src_h <= height THEN <<1, 1>>
  ELSE IF width * src_h <= height * src_w THEN <<width, src_w>>
       ELSE <<height, src_h>>

\* Python's round() of the non-negative rational num/den (ties to even)
Round(num, den) ==
  LET f == num \div den
      twice == 2 * (num - f * den)
  IN IF twice < den THEN f
     ELSE IF twice > den THEN f + 1
          ELSE IF f % 2 = 0 THEN f ELSE f + 1

\* C1: a successful call writes, at the output path, an image whose
\* dimensions are exactly (width, height), whatever the source's size.
C1_OutputSize ==
  (call.state = "returned" /\ call.ret.kind = "ok") =>
    /\ call.output_path \in DOMAIN fs
    /\ fs[call.output_path].kind = "image"
    /\ fs[call.output_path].w = call.width
    /\ fs[call.output_path].h = call.height
    /\ DOMAIN call.canvas.a = Pixels(call.width, call.height)

\* C1 witness: a wide source was shrunk onto a taller canvas and saved
C1_Witness ==
  /\ call.state = "returned" /\ call.ret.kind = "ok"
  /\ call.input_path = A_PNG /\ call.output_path = O_UPPER
  /\ fs[A_PNG].w > call.width /\ fs[A_PNG].h < call.height
  /\ call.width < call.height
  /\ fs[O_UPPER].w = call.width /\ fs[O_UPPER].h = call.height

\* C2: the source is never upscaled: a source that fits the target box keeps
\* its dimensions, and otherwise neither scaled dimension exceeds the source's.
C2_NeverUpscaled ==
  [][(TransformStep /\ SourceReadable) =>
       LET src == fs[call.input_path]
           img == call'.img
       IN /\ (src.w <= call.width /\ src.h <= call.height) =>
               /\ img.w = src.w /\ img.h = src.h
               /\ DOMAIN img.a = Pixels(src.w, src.h)
          /\ img.w <= src.w /\ img.h <= src.h]_vars

\* C2 witness: a source strictly smaller than the box was pasted at its own size
C2_Witness ==
  /\ call.state = "returned" /\ call.ret.kind = "ok"
  /\ call.input_path = B_JPG /\ call.output_path = O_UPPER
  /\ fs[B_JPG].w < call.width /\ fs[B_JPG].h < call.height
  /\ call.img.w = fs[B_JPG].w /\ call.img.h = fs[B_JPG].h

\* C3 as stated: the scaled dimensions are round(src_w * s) x round(src_h * s)
\* and fit the target box.
C3_Original ==
  [][(TransformStep /\ SourceReadable) =>
       LET src == fs[call.input_path]
           s == ScaleFactor(src.w, src.h, call.width, call.height)
           img == call'.img
       IN /\ img.w = Round(src.w * s[1], s[2])
          /\ img.h = Round(src.h * s[1], s[2])
          /\ img.w <= call.width /\ img.h <= call.height]_vars

\* C3 amended: each scaled dimension is the floor or the ceiling of
\* src * s with s = min(width / src_w, height / src_h, 1), is at least 1 and
\* does not exceed the target box; 2000x1000 in (1080,1080) gives 1080x540.
C3_ScaledSize ==
  [][(TransformStep /\ SourceReadable) =>
       LET src == fs[call.input_path]
           s == ScaleFactor(src.w, src.h, call.width, call.height)
           img == call'.img
       IN /\ img.w \in {Floor(src.w * s[1], s[2]), Ceil(src.w * s[1], s[2])}
          /\ img.h \in {Floor(src.h * s[1], s[2]), Ceil(src.h * s[1], s[2])}
          /\ img.w >= 1 /\ img.h >= 1
          /\ img.w <= call.width /\ img.h <= call.height
          /\ ThumbnailSize(2000, 1000, 1080, 1080) = <<1080, 540>>]_vars

\* C3 witness: a source whose exact scaled height is below one pixel was
\* shrunk to a one-pixel-high image
C3_Witness ==
  /\ call.state = "returned" /\ call.ret.kind = "ok"
  /\ call.input_path = A_PNG /\ call.output_path = O_UPPER
  /\ fs[A_PNG].w > 2 * call.width * fs[A_PNG].h
  /\ call.img.w = call.width /\ call.img.h = 1

\* C4: the paste offsets are >= 0, the right/bottom padding equals the
\* left/top padding when (target - scaled) is even and is one pixel larger
\* when it is odd; 500x500 on 1080x1350 is placed at (290, 425).
C4_Centered ==
  (call.state = "returned" /\ call.img # NoImage) =>
    LET left == call.x
        right == call.width - (call.x + call.img.w)
        top == call.y
        bottom == call.height - (call.y + call.img.h)
    IN /\ left >= 0 /\ top >= 0
       /\ IF (call.width - call.img.w) % 2 = 0
          THEN right = left ELSE right = left + 1
       /\ IF (call.height - call.img.h) % 2 = 0
          THEN bottom = top ELSE bottom = top + 1
       /\ ThumbnailSize(500, 500, 1080, 1350) = <<500, 500>>
       /\ CenterOffset(1080, 500) = 290 /\ CenterOffset(1350, 500) = 425

\* C4 witness: an odd horizontal and an even vertical padding
C4_Witness ==
  /\ call.state = "returned" /\ call.ret.kind = "ok"
  /\ (call.width - call.img.w) % 2 = 1
  /\ call.height - call.img.h = 2
  /\ call.x = 0 /\ call.y = 1

\* the canvas pixel p lies in the rectangle the scaled image was pasted on
InPasteBox(p) ==
  /\ call.x <= p[1] /\ p[1] < call.x + call.img.w
  /\ call.y <= p[2] /\ p[2] < call.y + call.img.h

\* C5: every canvas pixel outside the pasted rectangle has alpha 0, and so has
\* every pixel inside it whose scaled-source alpha is 0.
C5_TransparentPadding ==
  (call.state = "returned" /\ call.img # NoImage) =>
    \A p \in Pixels(call.width, call.height) :
      /\ ~InPasteBox(p) => call.canvas.a[p] = 0
      /\ (InPasteBox(p) /\ call.img.a[<<p[1] - call.x, p[2] - call.y>>] = 0)
           => call.canvas.a[p] = 0

\* C5 witness: a canvas with padding, a transparent and a visible pasted pixel
C5_Witness ==
  /\ call.state = "returned" /\ call.ret.kind = "ok"
  /\ \E p \in Pixels(call.width, call.height) : ~InPasteBox(p)
  /\ \E p \in Pixels(call.width, call.height) :
       /\ InPasteBox(p)
       /\ call.img.a[<<p[1] - call.x, p[2] - call.y>>] = 0
  /\ \E p \in Pixels(call.width, call.height) :
       InPasteBox(p) /\ call.canvas.a[p] > 0

\* C6: an unreadable source is signalled as the source-unreadable failure that
\* names the input path, never as the destination or the generic kind.
C6_SourceUnreadable ==
  [][(TransformStep /\ ~SourceReadable) =>
       /\ call'.ret.kind = "FileNotFoundError"
       /\ call'.ret.text = "Could not find input file: "
       /\ call'.ret.path = call.input_path]_vars

\* C7: with a readable source, a destination that cannot be opened for writing
\* is signalled as the destination-unwritable failure naming the output path.
C7_DestinationUnwritable ==
  [][(/\ TransformStep /\ SourceReadable
      /\ SaveOpenError(fs, call.output_path) # "none") =>
       /\ call'.ret.kind = "PermissionError"
       /\ call'.ret.text = "Permission denied when saving to: "
       /\ call'.ret.path = call.output_path]_vars

\* C8: a call that ends in a failure leaves the files as they were, and a call
\* that succeeds changes the file at the output path only.
C8_NoPartialOutput ==
  [][TransformStep =>
       IF call'.ret.kind = "ok"
       THEN \A p \in (DOMAIN fs \cup DOMAIN fs') \ {call.output_path} :
              p \in DOMAIN fs /\ p \in DOMAIN fs' /\ fs'[p] = fs[p]
       ELSE fs' = fs]_vars

\* C9: the output path handed to the transform is never the input path.
C9_InputReadOnly ==
  call.state = "returned" => call.output_path # call.input_path

\* C10: the (width, height) handed to the transform is the PRESETS entry of
\* the selected label, Portrait's (1080, 1350) at startup and for a label not
\* in the table, and always one of the three positive pairs.
C10_PresetPair ==
  /\ [](/\ IsInt(width_var) /\ IsInt(height_var)
        /\ <<ParseInt(width_var), ParseInt(height_var)>> = PRESETS[preset_var]
        /\ (runs = 0 /\ messagebox = NoBox /\ input_var = EmptyStr
            /\ output_var = EmptyStr /\ preset_var = PORTRAIT)
             => <<ParseInt(width_var), ParseInt(height_var)>> = <<1080, 1350>>
        /\ OnPresetChange("Story 1080x1920") = <<Str(1080), Str(1350)>>)
  /\ [][TransformStep =>
          /\ <<call'.width, call'.height>> = PRESETS[preset_var]
          /\ <<call'.width, call'.height>>
               \in {<<1080, 1080>>, <<1080, 1350>>, <<1080, 606>>}
          /\ call'.width > 0 /\ call'.height > 0]_vars

\* C10 witness: a conversion ran after the preset was changed to Landscape
C10_Witness ==
  /\ call.state = "returned"
  /\ preset_var = LANDSCAPE
  /\ call.width = 1080 /\ call.height = 606
  /\ width_var = <<"1", "0", "8", "0">> /\ height_var = <<"6", "0", "6">>

====
